---- MODULE Spec2Model ----
(***************************************************************************)
(* A model of main.py: a FastAPI application with five routes, the         *)
(* parameter declarations the framework validates before a handler runs,   *)
(* and the handler bodies.                                                 *)
(*                                                                         *)
(* Text is a TLA+ string.  A URL path is the sequence of its segments      *)
(* after the leading "/", so "/" is <<"">> and "/items/" is                *)
(* <<"items", "">>.  A query string is a function from parameter names to  *)
(* the sequence of values supplied under that name, in request order.      *)
(* An optional value is a sequence of length 0 (None) or 1.                *)
(***************************************************************************)
EXTENDS Integers, Sequences, FiniteSets, TLC

VARIABLES pc, req, scope, values, response, invoked, fake_items_db, bananas_default

vars == <<pc, req, scope, values, response, invoked, fake_items_db, bananas_default>>

(***************************************************************************)
(* Bounds of the model.                                                    *)
(***************************************************************************)
MaxBananas == 2
NumClients == 2

Clients == 1 .. NumClients

None == <<>>
Some(v) == <<v>>

(***************************************************************************)
(* class ModelName(str, Enum): member |-> value.                           *)
(***************************************************************************)
ModelName ==
    [m \in {"ModelName.alexnet", "ModelName.resnet", "ModelName.lenet"} |->
        CASE m = "ModelName.alexnet" -> "alexnet"
          [] m = "ModelName.resnet" -> "resnet"
          [] m = "ModelName.lenet" -> "lenet"]

\* ModelName(value): the member whose value is `value`, None when there is none.
ModelNameOf(value) ==
    IF \E m \in DOMAIN ModelName : ModelName[m] = value
    THEN Some(CHOOSE m \in DOMAIN ModelName : ModelName[m] = value)
    ELSE None

MaxLengthQ == 50

FakeItemsDbInit == <<[item_name |-> "Foo"], [item_name |-> "Bar"], [item_name |-> "Baz"]>>

LongDescription == " This is an amazing item that has a long description"

(***************************************************************************)
(* The route table, in registration order.                                 *)
(***************************************************************************)
Lit(s) == [kind |-> "lit", text |-> s]
Param(n) == [kind |-> "param", text |-> n]

\* Routes with get_model registered under a catch-all first segment.
RoutesCatchAll ==
    << [methods |-> {"GET"}, path |-> <<Lit("")>>, endpoint |-> "root"],
       [methods |-> {"GET"},
        path |-> <<Lit("users"), Param("user_id"), Lit("items"), Param("item_id")>>,
        endpoint |-> "read_item"],
       [methods |-> {"GET"}, path |-> <<Param("family"), Param("model_name")>>,
        endpoint |-> "get_model"],
       [methods |-> {"GET"}, path |-> <<Lit("items"), Param("item_id")>>,
        endpoint |-> "read_user_item"],
       [methods |-> {"POST"}, path |-> <<Lit("items"), Lit("")>>,
        endpoint |-> "create_item"] >>

Routes ==
    << [methods |-> {"GET"}, path |-> <<Lit("")>>, endpoint |-> "root"],
       [methods |-> {"GET"},
        path |-> <<Lit("users"), Param("user_id"), Lit("items"), Param("item_id")>>,
        endpoint |-> "read_item"],
       [methods |-> {"GET"}, path |-> <<Lit("models"), Param("model_name")>>,
        endpoint |-> "get_model"],
       [methods |-> {"GET"}, path |-> <<Lit("items"), Param("item_id")>>,
        endpoint |-> "read_user_item"],
       [methods |-> {"POST"}, path |-> <<Lit("items"), Lit("")>>,
        endpoint |-> "create_item"] >>

\* A path parameter matches one non-empty segment; a literal matches itself.
SegmentMatches(pat, seg) ==
    IF pat.kind = "param" THEN seg # "" ELSE seg = pat.text

PathMatches(pattern, path) ==
    /\ Len(pattern) = Len(path)
    /\ \A i \in 1 .. Len(pattern) : SegmentMatches(pattern[i], path[i])

\* "full": path and method match; "partial": the path alone; "none".
RouteMatch(route, r) ==
    IF ~PathMatches(route.path, r.path) THEN "none"
    ELSE IF r.method \in route.methods THEN "full" ELSE "partial"

PathParams(route, path) ==
    LET names == {route.path[i].text : i \in {j \in 1 .. Len(route.path) :
                                                route.path[j].kind = "param"}}
    IN [n \in names |->
          path[CHOOSE i \in 1 .. Len(route.path) :
                  route.path[i].kind = "param" /\ route.path[i].text = n]]

FullMatches(routes, r) == {i \in 1 .. Len(routes) : RouteMatch(routes[i], r) = "full"}
PartialMatches(routes, r) == {i \in 1 .. Len(routes) : RouteMatch(routes[i], r) = "partial"}

Min(S) == CHOOSE x \in S : \A y \in S : x <= y

\* The first route that matches in full is called; with none, 405 when a
\* path matched under another method and 404 otherwise.
Dispatch(routes, r) ==
    IF FullMatches(routes, r) # {}
    THEN LET i == Min(FullMatches(routes, r))
         IN [status |-> 200, index |-> i, endpoint |-> routes[i].endpoint,
             path_params |-> PathParams(routes[i], r.path)]
    ELSE IF PartialMatches(routes, r) # {}
    THEN [status |-> 405, index |-> 0, endpoint |-> "", path_params |-> <<>>]
    ELSE [status |-> 404, index |-> 0, endpoint |-> "", path_params |-> <<>>]

(***************************************************************************)
(* Parameter extraction and validation, from the handlers' signatures.     *)
(***************************************************************************)
QueryNames == {"item-query", "q", "bananas", "short", "needy"}

\* A scalar parameter reads the last value supplied under its name.
QueryGet(query, name) ==
    IF Len(query[name]) = 0 THEN None ELSE Some(query[name][Len(query[name])])

\* QueryGetList reading a list parameter as a scalar one: the last value only.
QueryGetListLast(query, name) ==
    IF Len(query[name]) = 0 THEN <<>> ELSE <<query[name][Len(query[name])]>>

\* A list parameter reads every value supplied under its name, in order.
QueryGetList(query, name) == query[name]

\* Decimal literals of the inputs and the int each denotes.
IntTable == ("42" :> 42) @@ ("-7" :> -7) @@ ("1" :> 1)

ParseInt(s) == IF s \in DOMAIN IntTable THEN Some(IntTable[s]) ELSE None

BoolTrue == {"true", "1", "on", "yes", "t", "y"}
BoolFalse == {"false", "0", "off", "no", "f", "n"}

ParseBool(s) ==
    IF s \in BoolTrue THEN Some(TRUE) ELSE IF s \in BoolFalse THEN Some(FALSE) ELSE None

\* JSON values of a request body.
JStr(s) == <<"str", s>>
JNum(n) == <<"num", n>>
JNull == <<"null">>

\* Numeric text that coerces to a float, and the number it denotes.
FloatTable == ("9" :> 9) @@ ("20" :> 20)

ParseFloat(j) ==
    IF j[1] = "num" THEN Some(j[2])
    ELSE IF j[1] = "str" /\ j[2] \in DOMAIN FloatTable THEN Some(FloatTable[j[2]])
    ELSE None

\* q: str | None, Query(max_length=50, alias='item-query')
QAlias == "item-query"

\* QLengthOk with the bound exclusive.
QLengthStrict(s) == Len(s) < MaxLengthQ

QLengthOk(s) == Len(s) <= MaxLengthQ

\* Each Solve_* gives the errors of the declared inputs and, when there are
\* none, the arguments the handler is called with.
Solve_root(path_params, r, default) ==
    [errors |-> {}, args |-> <<>>]

Solve_read_item(path_params, r, default) ==
    LET user_id == ParseInt(path_params["user_id"])
        raw_q == QueryGet(r.query, QAlias)
        raw_bananas == QueryGetList(r.query, "bananas")
        raw_short == QueryGet(r.query, "short")
        short == IF raw_short = None THEN Some(FALSE) ELSE ParseBool(raw_short[1])
        errors == (IF user_id = None THEN {"path.user_id"} ELSE {})
                  \cup (IF raw_q # None /\ ~QLengthOk(raw_q[1])
                        THEN {"query.item-query"} ELSE {})
                  \cup (IF short = None THEN {"query.short"} ELSE {})
    IN [errors |-> errors,
        args |-> IF errors # {} THEN <<>>
                 ELSE [user_id |-> user_id[1],
                       item_id |-> path_params["item_id"],
                       q |-> raw_q,
                       bananas |-> IF Len(raw_bananas) = 0 THEN default ELSE raw_bananas,
                       short |-> short[1]]]

Solve_get_model(path_params, r, default) ==
    LET model_name == ModelNameOf(path_params["model_name"])
    IN [errors |-> IF model_name = None THEN {"path.model_name"} ELSE {},
        args |-> IF model_name = None THEN <<>> ELSE [model_name |-> model_name[1]]]

Solve_read_user_item(path_params, r, default) ==
    LET needy == QueryGet(r.query, "needy")
    IN [errors |-> IF needy = None THEN {"query.needy"} ELSE {},
        args |-> IF needy = None THEN <<>>
                 ELSE [item_id |-> path_params["item_id"], needy |-> needy[1]]]

\* class Item(BaseModel): name: str; description: str | None = None;
\* price: float; tax: float | None = None
ItemFields == {"name", "description", "price", "tax"}

ValidateItem(obj) ==
    LET has(f) == f \in DOMAIN obj
        name_ok == has("name") /\ obj["name"][1] = "str"
        description_ok == has("description") => obj["description"][1] \in {"str", "null"}
        price == IF has("price") THEN ParseFloat(obj["price"]) ELSE None
        tax_ok == has("tax") => (obj["tax"] = JNull \/ ParseFloat(obj["tax"]) # None)
        errors == (IF name_ok THEN {} ELSE {"body.name"})
                  \cup (IF description_ok THEN {} ELSE {"body.description"})
                  \cup (IF price = None THEN {"body.price"} ELSE {})
                  \cup (IF tax_ok THEN {} ELSE {"body.tax"})
    IN [errors |-> errors,
        item |-> IF errors # {} THEN <<>>
                 ELSE [name |-> obj["name"][2],
                       description |-> IF has("description") /\ obj["description"] # JNull
                                       THEN Some(obj["description"][2]) ELSE None,
                       price |-> price[1],
                       tax |-> IF has("tax") /\ obj["tax"] # JNull
                               THEN ParseFloat(obj["tax"]) ELSE None]]

Solve_create_item(path_params, r, default) ==
    IF r.body = None THEN [errors |-> {"body"}, args |-> <<>>]
    ELSE LET v == ValidateItem(r.body[1])
         IN [errors |-> v.errors,
             args |-> IF v.errors # {} THEN <<>> ELSE [item |-> v.item]]

Solve(endpoint, path_params, r, default) ==
    CASE endpoint = "root" -> Solve_root(path_params, r, default)
      [] endpoint = "read_item" -> Solve_read_item(path_params, r, default)
      [] endpoint = "get_model" -> Solve_get_model(path_params, r, default)
      [] endpoint = "read_user_item" -> Solve_read_user_item(path_params, r, default)
      [] endpoint = "create_item" -> Solve_create_item(path_params, r, default)

(***************************************************************************)
(* The handler bodies.  A dict is a function from its keys.                *)
(***************************************************************************)
Update(d, e) == [k \in DOMAIN d \cup DOMAIN e |-> IF k \in DOMAIN e THEN e[k] ELSE d[k]]

\* Python truth of an optional str: None and "" are false.
TruthyStr(o) == o # None /\ o[1] # ""

\* root with another greeting.
root_lower == [message |-> "Hello world"]

root == [message |-> "Hello World"]

\* read_item testing `q is not None` in place of `q`.
read_item_q_not_none(user_id, item_id, q, bananas, short) ==
    LET item0 == [item_id |-> item_id, owner_id |-> user_id]
        item1 == IF q # None THEN Update(item0, [q |-> q[1]]) ELSE item0
        item2 == IF Len(bananas) > 0 THEN Update(item1, [bananas |-> bananas]) ELSE item1
        item3 == IF ~short THEN Update(item2, [description |-> LongDescription]) ELSE item2
    IN item3

read_item(user_id, item_id, q, bananas, short) ==
    LET item0 == [item_id |-> item_id, owner_id |-> user_id]
        item1 == IF TruthyStr(q) THEN Update(item0, [q |-> q[1]]) ELSE item0
        item2 == IF Len(bananas) > 0 THEN Update(item1, [bananas |-> bananas]) ELSE item1
        item3 == IF ~short THEN Update(item2, [description |-> LongDescription]) ELSE item2
    IN item3

\* read_item appending to its bananas argument.
read_item_bananas_append(user_id, item_id, q, bananas, short) == Append(bananas, item_id)

\* The list bound to `bananas` once read_item has run: the body only reads it.
read_item_bananas(user_id, item_id, q, bananas, short) == bananas

\* get_model with the second branch testing for 'resnet'.
get_model_resnet_branch(model_name) ==
    IF model_name = "ModelName.alexnet"
    THEN [model_name |-> model_name, message |-> "Deep Learning FTW!"]
    ELSE IF ModelName[model_name] = "resnet"
    THEN [model_name |-> model_name, message |-> "LeCNN all the images"]
    ELSE [model_name |-> model_name, message |-> "Have some residuals"]

get_model(model_name) ==
    IF model_name = "ModelName.alexnet"
    THEN [model_name |-> model_name, message |-> "Deep Learning FTW!"]
    ELSE IF ModelName[model_name] = "lenet"
    THEN [model_name |-> model_name, message |-> "LeCNN all the images"]
    ELSE [model_name |-> model_name, message |-> "Have some residuals"]

\* The response carries an enum member as its value.
EncodeModel(ret) == [model_name |-> ModelName[ret.model_name], message |-> ret.message]

\* read_user_item filling needy from item_id.
read_user_item_same(item_id, needy) == [item_id |-> item_id, needy |-> item_id]

read_user_item(item_id, needy) == [item_id |-> item_id, needy |-> needy]

\* create_item returning the record without its tax.
create_item_no_tax(item) == [item EXCEPT !.tax = None]

create_item(item) == item

(***************************************************************************)
(* The requests the clients send.                                          *)
(***************************************************************************)
S50 == "01234567890123456789012345678901234567890123456789"
S51 == "012345678901234567890123456789012345678901234567890"

MkQuery(iq, q, b, s, n) ==
    ("item-query" :> iq) @@ ("q" :> q) @@ ("bananas" :> b) @@ ("short" :> s) @@ ("needy" :> n)

EmptyQuery == MkQuery(<<>>, <<>>, <<>>, <<>>, <<>>)

MkRequest(m, p, qs, b) == [method |-> m, path |-> p, query |-> qs, body |-> b]

BananaVals == {"a", "b", ""}
BananaLists == UNION {[1 .. n -> BananaVals] : n \in 0 .. MaxBananas}

ItemQueryVals == {<<>>, <<"">>, <<"hello">>, <<S50>>, <<S51>>, <<S51, "hello">>, <<"hello", S51>>}
PlainQVals == {<<>>, <<"ignored">>}
ShortVals == {<<>>, <<"true">>, <<"false">>, <<"on">>, <<"maybe">>, <<"maybe", "yes">>}
NeedyVals == {<<>>, <<"urgent">>, <<"">>, <<"urgent", "later">>}

UsersPaths == { <<"users", "42", "items", "abc">>, <<"users", "x1", "items", "abc">> }
MoreUsersPaths ==
    { <<"users", "-7", "items", "items">>, <<"users", "1", "items", "">>,
      <<"users", "42", "items">>, <<"users", "4.2", "items", "abc">> }
ModelsPaths ==
    { <<"models", "alexnet">>, <<"models", "resnet">>, <<"models", "lenet">>,
      <<"models", "vgg">>, <<"models", "ModelName.lenet">>, <<"models", "">> }
ItemsPaths == { <<"items", "xyz">>, <<"items", "users">>, <<"items", "">>, <<"items">> }
OtherPaths == { <<"">>, <<"nowhere">>, <<"items", "xyz", "">> }

JsonObjects ==
    LET names == {<<>>, <<JStr("Widget")>>, <<JNull>>}
        descriptions == {<<>>, <<JStr("round")>>, <<JNull>>}
        prices == {<<>>, <<JNum(10)>>, <<JStr("9")>>, <<JStr("abc")>>, <<JNull>>}
        taxes == {<<>>, <<JNum(2)>>, <<JStr("20")>>, <<JStr("free")>>, <<JNull>>}
        present(n, d, p, t) ==
            {f \in ItemFields : \/ f = "name" /\ n # <<>>
                                \/ f = "description" /\ d # <<>>
                                \/ f = "price" /\ p # <<>>
                                \/ f = "tax" /\ t # <<>>}
    IN { [f \in present(n, d, p, t) |->
            CASE f = "name" -> n[1] [] f = "description" -> d[1]
              [] f = "price" -> p[1] [] f = "tax" -> t[1]] :
         n \in names, d \in descriptions, p \in prices, t \in taxes }

Bodies == {None} \cup {Some(o) : o \in JsonObjects}

UsersQueries ==
    { MkQuery(iq, q, b, s, <<>>) :
        iq \in ItemQueryVals, q \in PlainQVals, b \in BananaLists, s \in ShortVals }
ItemsQueries ==
    { MkQuery(iq, <<>>, b, <<>>, n) :
        iq \in {<<>>, <<"hello">>}, b \in {<<>>, <<"a">>}, n \in NeedyVals }

Requests ==
    { MkRequest(m, p, qs, None) : m \in {"GET", "POST"}, p \in UsersPaths, qs \in UsersQueries }
    \cup { MkRequest(m, p, qs, None) :
             m \in {"GET", "POST"},
             p \in MoreUsersPaths \cup ItemsPaths \cup ModelsPaths \cup OtherPaths,
             qs \in ItemsQueries }
    \cup { MkRequest(m, p, qs, b) :
             m \in {"GET", "POST"}, p \in ItemsPaths \cup { <<"">> },
             qs \in {EmptyQuery, MkQuery(<<>>, <<>>, <<>>, <<>>, <<"urgent">>)},
             b \in Bodies }

\* The requests of the concurrent clients.
ConcRequests ==
    { MkRequest("GET", <<"users", "42", "items", "abc">>, qs, None) :
        qs \in { EmptyQuery,
                 MkQuery(<<"hello">>, <<>>, <<"a", "b">>, <<"true">>, <<>>),
                 MkQuery(<<>>, <<>>, <<"b">>, <<>>, <<>>) } }
    \cup { MkRequest("GET", <<"">>, EmptyQuery, None),
           MkRequest("GET", <<"models", "lenet">>, EmptyQuery, None),
           MkRequest("GET", <<"models", "vgg">>, EmptyQuery, None),
           MkRequest("GET", <<"items", "xyz">>,
                     MkQuery(<<>>, <<>>, <<>>, <<>>, <<"urgent">>), None),
           MkRequest("POST", <<"items", "">>, EmptyQuery,
                     Some(("name" :> JStr("Widget")) @@ ("price" :> JNum(10)))),
           MkRequest("POST", <<"items", "xyz">>, EmptyQuery, None) }

(***************************************************************************)
(* The server: each client's request is received, routed, validated,       *)
(* handled and answered.  The handlers are coroutines without an await,    *)
(* so a handler body runs as one step.                                     *)
(***************************************************************************)
NoRequest == MkRequest("", <<>>, EmptyQuery, None)
NoScope == [status |-> 0, index |-> 0, endpoint |-> "", path_params |-> <<>>]
NoResponse == [status |-> 0, body |-> <<>>]

Init ==
    /\ pc = [c \in Clients |-> "idle"]
    /\ req = [c \in Clients |-> NoRequest]
    /\ scope = [c \in Clients |-> NoScope]
    /\ values = [c \in Clients |-> <<>>]
    /\ response = [c \in Clients |-> NoResponse]
    /\ invoked = [c \in Clients |-> ""]
    /\ fake_items_db = FakeItemsDbInit
    /\ bananas_default = <<>>

Receive(c, R) ==
    /\ pc[c] = "idle"
    /\ \E r \in R : req' = [req EXCEPT ![c] = r]
    /\ pc' = [pc EXCEPT ![c] = "received"]
    /\ UNCHANGED <<scope, values, response, invoked, fake_items_db, bananas_default>>

Route(c) ==
    /\ pc[c] = "received"
    /\ LET d == Dispatch(Routes, req[c])
       IN /\ scope' = [scope EXCEPT ![c] = d]
          /\ IF d.status = 200
             THEN /\ pc' = [pc EXCEPT ![c] = "routed"]
                  /\ UNCHANGED response
             ELSE /\ pc' = [pc EXCEPT ![c] = "responded"]
                  /\ response' = [response EXCEPT ![c] = [status |-> d.status, body |-> <<>>]]
    /\ UNCHANGED <<req, values, invoked, fake_items_db, bananas_default>>

Validate(c) ==
    /\ pc[c] = "routed"
    /\ LET s == Solve(scope[c].endpoint, scope[c].path_params, req[c], bananas_default)
       IN IF s.errors = {}
          THEN /\ pc' = [pc EXCEPT ![c] = "ready"]
               /\ values' = [values EXCEPT ![c] = s.args]
               /\ UNCHANGED response
          ELSE /\ pc' = [pc EXCEPT ![c] = "responded"]
               /\ response' = [response EXCEPT ![c] = [status |-> 422, body |-> s.errors]]
               /\ UNCHANGED values
    /\ UNCHANGED <<req, scope, invoked, fake_items_db, bananas_default>>

Respond(c, endpoint, body) ==
    /\ pc' = [pc EXCEPT ![c] = "responded"]
    /\ invoked' = [invoked EXCEPT ![c] = endpoint]
    /\ response' = [response EXCEPT ![c] = [status |-> 200, body |-> body]]
    /\ UNCHANGED <<req, scope, values, fake_items_db>>

Call_root(c) ==
    /\ pc[c] = "ready" /\ scope[c].endpoint = "root"
    /\ Respond(c, "root", root)
    /\ UNCHANGED bananas_default

Call_read_item(c) ==
    /\ pc[c] = "ready" /\ scope[c].endpoint = "read_item"
    /\ LET a == values[c]
       IN /\ Respond(c, "read_item",
                     read_item(a.user_id, a.item_id, a.q, a.bananas, a.short))
          \* with no bananas value the argument is the default list itself
          /\ bananas_default' =
                IF Len(QueryGetList(req[c].query, "bananas")) = 0
                THEN read_item_bananas(a.user_id, a.item_id, a.q, a.bananas, a.short)
                ELSE bananas_default

Call_get_model(c) ==
    /\ pc[c] = "ready" /\ scope[c].endpoint = "get_model"
    /\ Respond(c, "get_model", EncodeModel(get_model(values[c].model_name)))
    /\ UNCHANGED bananas_default

Call_read_user_item(c) ==
    /\ pc[c] = "ready" /\ scope[c].endpoint = "read_user_item"
    /\ Respond(c, "read_user_item", read_user_item(values[c].item_id, values[c].needy))
    /\ UNCHANGED bananas_default

Call_create_item(c) ==
    /\ pc[c] = "ready" /\ scope[c].endpoint = "create_item"
    /\ Respond(c, "create_item", create_item(values[c].item))
    /\ UNCHANGED bananas_default

Send(c) ==
    /\ pc[c] = "responded"
    /\ pc' = [pc EXCEPT ![c] = "idle"]
    /\ req' = [req EXCEPT ![c] = NoRequest]
    /\ scope' = [scope EXCEPT ![c] = NoScope]
    /\ values' = [values EXCEPT ![c] = <<>>]
    /\ response' = [response EXCEPT ![c] = NoResponse]
    /\ invoked' = [invoked EXCEPT ![c] = ""]
    /\ UNCHANGED <<fake_items_db, bananas_default>>

Step(c, R) ==
    \/ Receive(c, R)
    \/ Route(c)
    \/ Validate(c)
    \/ Call_root(c)
    \/ Call_read_item(c)
    \/ Call_get_model(c)
    \/ Call_read_user_item(c)
    \/ Call_create_item(c)
    \/ Send(c)

\* One client, every request shape.
Next == Step(1, Requests)

Spec == Init /\ [][Next]_vars

\* Several clients whose requests are in flight together.
ConcNext == \E c \in Clients : Step(c, ConcRequests)

ConcSpec == Init /\ [][ConcNext]_vars

(***************************************************************************)
(* Properties.                                                             *)
(***************************************************************************)
Last(s) == s[Len(s)]

Handled(c, endpoint) == pc[c] = "responded" /\ invoked[c] = endpoint

\* The raw `short` values that make the flag false: absent, or a false form.
ShortIsFalse(r) == r.query["short"] = <<>> \/ Last(r.query["short"]) \in BoolFalse

\* C1: the result of read_item has item_id (the path text) and owner_id (the
\* integer user_id) always, q exactly when a non-empty item-query value was
\* supplied, bananas exactly when a bananas value was supplied, description
\* (the fixed text) exactly when short is false, and no other field.
C1_ReadItemFields ==
    \A c \in Clients :
        Handled(c, "read_item") =>
            LET b == response[c].body
                r == req[c]
                iq == r.query["item-query"]
            IN /\ response[c].status = 200
               /\ r.method = "GET" /\ Len(r.path) = 4
               /\ {"item_id", "owner_id"} \subseteq DOMAIN b
               /\ DOMAIN b \subseteq {"item_id", "owner_id", "q", "bananas", "description"}
               /\ b["item_id"] = r.path[4]
               /\ b["owner_id"] = IntTable[r.path[2]]
               /\ "q" \in DOMAIN b <=> (iq # <<>> /\ Last(iq) # "")
               /\ "q" \in DOMAIN b => b["q"] = Last(iq)
               /\ "bananas" \in DOMAIN b <=> r.query["bananas"] # <<>>
               /\ "description" \in DOMAIN b <=> ShortIsFalse(r)
               /\ "description" \in DOMAIN b => b["description"] = LongDescription

C1_Witness ==
    /\ Handled(1, "read_item")
    /\ req[1].path = <<"users", "42", "items", "abc">>
    /\ req[1].query = MkQuery(<<"hello">>, <<"ignored">>, <<>>, <<"true">>, <<>>)
    /\ response[1].body = [item_id |-> "abc", owner_id |-> 42, q |-> "hello"]

\* C2: for alexnet, resnet and lenet, GET /models/{model_name} returns the
\* requested model_name and the message of that model.
C2_ModelMessages ==
    \A c \in Clients :
        LET r == req[c]
            asked == r.method = "GET" /\ Len(r.path) = 2 /\ r.path[1] = "models"
                     /\ r.path[2] \in {"alexnet", "resnet", "lenet"}
        IN /\ pc[c] = "responded" /\ asked =>
                /\ invoked[c] = "get_model"
                /\ response[c].status = 200
                /\ response[c].body =
                      [model_name |-> r.path[2],
                       message |-> CASE r.path[2] = "alexnet" -> "Deep Learning FTW!"
                                     [] r.path[2] = "lenet" -> "LeCNN all the images"
                                     [] r.path[2] = "resnet" -> "Have some residuals"]
           /\ Handled(c, "get_model") => asked

C2_Witness ==
    /\ Handled(1, "get_model")
    /\ req[1].path = <<"models", "lenet">>
    /\ response[1].body = [model_name |-> "lenet", message |-> "LeCNN all the images"]

\* Whether the raw inputs of request r pass the declarations of `endpoint`.
IsNumeric(j) == j[1] = "num" \/ (j[1] = "str" /\ j[2] \in {"9", "20"})

InputsValid(endpoint, r) ==
    CASE endpoint = "root" -> TRUE
      [] endpoint = "read_item" ->
            /\ r.path[2] \in {"42", "-7", "1"}
            /\ r.query["item-query"] # <<>> => Len(Last(r.query["item-query"])) <= 50
            /\ r.query["short"] # <<>> => Last(r.query["short"]) \in BoolTrue \cup BoolFalse
      [] endpoint = "get_model" -> r.path[2] \in {"alexnet", "resnet", "lenet"}
      [] endpoint = "read_user_item" -> r.query["needy"] # <<>>
      [] endpoint = "create_item" ->
            /\ r.body # None
            /\ LET o == r.body[1]
               IN /\ "name" \in DOMAIN o /\ o["name"][1] = "str"
                  /\ "price" \in DOMAIN o /\ IsNumeric(o["price"])
                  /\ "description" \in DOMAIN o => o["description"][1] \in {"str", "null"}
                  /\ "tax" \in DOMAIN o => (o["tax"] = JNull \/ IsNumeric(o["tax"]))

\* C3: for a request matched to a route the handler runs exactly when every
\* declared input passes validation; otherwise the response is an error and
\* the handler is not invoked.  An item-query of 50 characters passes.
C3_ValidationGuardsHandler ==
    \A c \in Clients :
        /\ pc[c] \in {"idle", "received", "routed", "ready"} => invoked[c] = ""
        /\ pc[c] = "responded" /\ scope[c].status = 200 =>
              IF InputsValid(scope[c].endpoint, req[c])
              THEN invoked[c] = scope[c].endpoint /\ response[c].status = 200
              ELSE invoked[c] = "" /\ response[c].status = 422

C3_Witness ==
    /\ pc[1] = "responded"
    /\ scope[1].endpoint = "read_item"
    /\ req[1].query["item-query"] = <<S51>>
    /\ req[1].path[2] = "42"
    /\ response[1].status = 422
    /\ invoked[1] = ""

\* C4: GET /items/{item_id} is rejected when needy is absent, and otherwise
\* returns exactly item_id and needy as the request gave them.
C4_NeedyRequired ==
    \A c \in Clients :
        LET r == req[c]
        IN pc[c] = "responded" /\ r.method = "GET" /\ Len(r.path) = 2
           /\ r.path[1] = "items" /\ r.path[2] # "" =>
              IF r.query["needy"] = <<>>
              THEN invoked[c] = "" /\ response[c].status = 422
              ELSE /\ invoked[c] = "read_user_item"
                   /\ response[c].status = 200
                   /\ response[c].body =
                         [item_id |-> r.path[2], needy |-> Last(r.query["needy"])]

C4_Witness ==
    /\ Handled(1, "read_user_item")
    /\ req[1].path = <<"items", "xyz">>
    /\ req[1].query["needy"] = <<"urgent">>
    /\ response[1].body = [item_id |-> "xyz", needy |-> "urgent"]

\* The number a numeric JSON value denotes.
NumberOf(j) == IF j[1] = "num" THEN j[2] ELSE IF j[2] = "9" THEN 9 ELSE 20

\* C5: POST /items/ returns name, description, price and tax as validated,
\* description and tax being None when the body left them out, and stores
\* nothing.
C5_CreateItemEcho ==
    \A c \in Clients :
        Handled(c, "create_item") =>
            LET o == req[c].body[1]
                b == response[c].body
            IN /\ response[c].status = 200
               /\ DOMAIN b = {"name", "description", "price", "tax"}
               /\ b["name"] = o["name"][2]
               /\ b["price"] = NumberOf(o["price"])
               /\ b["description"] =
                     IF "description" \in DOMAIN o /\ o["description"] # JNull
                     THEN Some(o["description"][2]) ELSE None
               /\ b["tax"] =
                     IF "tax" \in DOMAIN o /\ o["tax"] # JNull
                     THEN Some(NumberOf(o["tax"])) ELSE None
               /\ fake_items_db = FakeItemsDbInit
               /\ bananas_default = <<>>

C5_Witness ==
    /\ Handled(1, "create_item")
    /\ req[1].body = Some(("name" :> JStr("Widget")) @@ ("price" :> JNum(10)))
    /\ response[1].body =
          [name |-> "Widget", description |-> None, price |-> 10, tax |-> None]

\* C6: the bananas field is the list of all bananas values of the request,
\* in request order.
C6_BananasInOrder ==
    \A c \in Clients :
        Handled(c, "read_item") /\ req[c].query["bananas"] # <<>> =>
            /\ "bananas" \in DOMAIN response[c].body
            /\ response[c].body["bananas"] = req[c].query["bananas"]

C6_Witness ==
    /\ Handled(1, "read_item")
    /\ req[1].query["bananas"] = <<"b", "a">>
    /\ response[1].body["bananas"] = <<"b", "a">>

\* C7: GET / returns exactly {"message": "Hello World"}, whatever comes
\* with the request.
C7_RootGreeting ==
    \A c \in Clients :
        pc[c] = "responded" /\ req[c].method = "GET" /\ req[c].path = <<"">> =>
            /\ invoked[c] = "root"
            /\ response[c] = [status |-> 200, body |-> [message |-> "Hello World"]]

C7_Witness ==
    /\ Handled(1, "root")
    /\ req[1].query["needy"] = <<"urgent">>
    /\ req[1].body # None
    /\ response[1].body = [message |-> "Hello World"]

\* The response to request r served alone by a fresh process.
ServedAlone(r) ==
    LET d == Dispatch(Routes, r)
        s == Solve(d.endpoint, d.path_params, r, <<>>)
        a == s.args
    IN IF d.status # 200 THEN [status |-> d.status, body |-> <<>>]
       ELSE IF s.errors # {} THEN [status |-> 422, body |-> s.errors]
       ELSE [status |-> 200,
             body |-> CASE d.endpoint = "root" -> root
                        [] d.endpoint = "read_item" ->
                              read_item(a.user_id, a.item_id, a.q, a.bananas, a.short)
                        [] d.endpoint = "get_model" -> EncodeModel(get_model(a.model_name))
                        [] d.endpoint = "read_user_item" -> read_user_item(a.item_id, a.needy)
                        [] d.endpoint = "create_item" -> create_item(a.item)]

\* C8: whatever requests are in flight or were served, each response is
\* the one the request gets when served alone; fake_items_db keeps its three
\* records and the default bananas list stays empty.
C8_NoSharedState ==
    /\ fake_items_db = FakeItemsDbInit
    /\ bananas_default = <<>>
    /\ \A c \in Clients : pc[c] = "responded" => response[c] = ServedAlone(req[c])

C8_Witness ==
    /\ Handled(1, "read_item") /\ Handled(2, "read_item")
    /\ req[1].query["bananas"] = <<"a", "b">>
    /\ req[2].query["bananas"] = <<>>
    /\ "bananas" \in DOMAIN response[1].body
    /\ "bananas" \notin DOMAIN response[2].body

\* The route table in every registration order.
RouteOrders == {[i \in 1 .. Len(Routes) |-> Routes[p[i]]] : p \in Permutations(1 .. Len(Routes))}

\* C10: a request matches at most one of the five routes, so the handler
\* chosen is the same under every registration order; GET /users/.../items/...
\* never reaches read_user_item and read_user_item never gets an empty item_id.
C10_RoutesDisjoint ==
    \A c \in Clients :
        /\ pc[c] = "routed" \/ (pc[c] = "responded" /\ scope[c].status # 200) =>
              /\ Cardinality({i \in 1 .. Len(Routes) :
                                /\ PathMatches(Routes[i].path, req[c].path)
                                /\ req[c].method \in Routes[i].methods}) <= 1
              /\ \A routes \in RouteOrders :
                    LET d == Dispatch(routes, req[c])
                    IN d.endpoint = scope[c].endpoint /\ d.status = scope[c].status
        /\ invoked[c] = "read_user_item" =>
              /\ Len(req[c].path) = 2 /\ req[c].path[1] = "items" /\ req[c].path[2] # ""
              /\ response[c].body["item_id"] # ""
        /\ pc[c] = "responded" /\ req[c].method = "GET" /\ Len(req[c].path) = 4
           /\ req[c].path[1] = "users" => invoked[c] \in {"", "read_item"}

C10_Witness ==
    /\ Handled(1, "read_item")
    /\ req[1].path = <<"users", "-7", "items", "items">>
    /\ response[1].body["owner_id"] = -7

====
